---- MODULE Spec2Model ----
(***************************************************************************)
(* StreamVC causal encoder / decoder (src/streamvc/encoder_decoder.py).    *)
(*                                                                         *)
(* A tensor is modelled by its shape and, per time step, by the index of   *)
(* the latest input position (waveform sample for the Encoder, embedding   *)
(* frame for the Decoder) that the values at that time step are computed   *)
(* from.  Positions are 0-based as in the Python code; TLA+ sequences are  *)
(* 1-based, so time step t of the code is element t+1 of `dep`.            *)
(***************************************************************************)
EXTENDS Integers, Sequences, FiniteSets, TLC

(***************************************************************************)
(* Bounds of the model.                                                    *)
(***************************************************************************)
MaxKernel == 4
MaxStride == 3
MaxDilation == 2
MaxLen == 5
MaxChannels == 2
MaxScale == 1
MaxEmbedding == 2
MaxCond == 2
MaxEncFrames == 2
MaxDecFrames == 2
MaxBatch == 2
MaxTime == 2
MaxTrainFrames == 2
MaxSteps == 2

(***************************************************************************)
(* Tensors.                                                                *)
(***************************************************************************)
NoDep == 0 - 1

Err == [ok |-> FALSE, lay |-> "none", ch |-> 0, cond |-> FALSE, dep |-> <<>>]

Tensor(lay, ch, cond, dep) ==
    [ok |-> TRUE, lay |-> lay, ch |-> ch, cond |-> cond, dep |-> dep]

Iota(n) == [i \in 1..n |-> i - 1]

Max2(a, b) == IF a >= b THEN a ELSE b

Min2(a, b) == IF a <= b THEN a ELSE b

MaxOf(S) == CHOOSE m \in S : \A y \in S : y <= m

(***************************************************************************)
(* F.pad(x, pad=(p, 0), mode=...): left padding of the time axis.  A       *)
(* negative amount crops.  mode "constant" inserts the constant 0, which   *)
(* depends on no input; "replicate" repeats the first time step.  These    *)
(* are the two modes among the inputs of the model; any other string       *)
(* stands for a mode F.pad does not recognise.                             *)
(***************************************************************************)
\* the padding put on the right: pad=(0, p)
FPad_Right(x, p, mode) ==
    LET T == Len(x.dep) IN
    IF ~x.ok \/ mode \notin {"constant", "replicate"} \/ T + p < 1 THEN Err
    ELSE [x EXCEPT !.dep = [i \in 1..(T + p) |->
             IF i <= T THEN x.dep[i]
             ELSE IF mode = "constant" THEN NoDep ELSE x.dep[T]]]

FPad(x, p, mode) ==
    LET T == Len(x.dep) IN
    IF ~x.ok THEN Err
    ELSE IF mode = "constant" THEN
        IF T + p < 0 THEN Err
        ELSE [x EXCEPT !.dep = [i \in 1..(T + p) |->
                 IF i <= p THEN NoDep ELSE x.dep[i - p]]]
    ELSE IF mode = "replicate" THEN
        IF T + p < 1 THEN Err
        ELSE [x EXCEPT !.dep = [i \in 1..(T + p) |->
                 IF i <= p THEN x.dep[1] ELSE x.dep[i - p]]]
    ELSE Err

(***************************************************************************)
(* nn.Conv1d.forward with padding=0: output step j reads the input steps   *)
(* j*stride + i*dilation, i = 0..kernel_size-1.                            *)
(***************************************************************************)
Conv1dForward(m, x) ==
    LET L    == Len(x.dep)
        span == m.d * (m.k - 1) + 1
    IN  IF ~x.ok \/ x.lay # "cm" \/ x.ch # m.cin \/ L < span THEN Err
        ELSE LET n == ((L - span) \div m.s) + 1 IN
             [x EXCEPT !.ch = m.cout,
                       !.dep = [j \in 1..n |->
                           MaxOf({x.dep[(j - 1) * m.s + i * m.d + 1] :
                                     i \in 0..(m.k - 1)})]]

(***************************************************************************)
(* nn.ConvTranspose1d.forward with padding=0, output_padding=0: input step *)
(* t contributes to the output steps t*stride + i*dilation.                *)
(***************************************************************************)
ConvTranspose1dForward(m, x) ==
    LET T == Len(x.dep)
        n == (T - 1) * m.s + m.d * (m.k - 1) + 1
    IN  IF ~x.ok \/ x.lay # "cm" \/ x.ch # m.cin \/ T < 1 THEN Err
        ELSE [x EXCEPT !.ch = m.cout,
                       !.dep = [o \in 1..n |->
                  MaxOf({NoDep} \cup
                        {x.dep[t + 1] :
                           t \in {u \in Max2(0, (o - 1 - m.d * (m.k - 1)) \div m.s)
                                        .. Min2(T - 1, (o - 1) \div m.s) :
                                    /\ (o - 1 - u * m.s) % m.d = 0
                                    /\ (o - 1 - u * m.s) \div m.d <= m.k - 1}})]]

(***************************************************************************)
(* Python slice x[..., :stop] on a time axis of length L.                  *)
(***************************************************************************)
SliceStop(L, stop) ==
    IF stop < 0 THEN Max2(L + stop, 0) ELSE Min2(stop, L)

SliceTo(x, stop) ==
    IF ~x.ok THEN Err
    ELSE [x EXCEPT !.dep = SubSeq(x.dep, 1, SliceStop(Len(x.dep), stop))]

(***************************************************************************)
(* Constructors.  kwargs is the set of extra keyword names of the call.    *)
(* A constructor that raises yields a record that is not a module.         *)
(***************************************************************************)
Raised(e) == [kind |-> e]

\* the usual causal padding, without the stride term
CausalPadding_NoStride(k, s, d) == d * (k - 1)

\* the stride term off by one
CausalPadding_FullStride(k, s, d) == d * (k - 1) - s

CausalPadding(k, s, d) == d * (k - 1) - (s - 1)

CausalConv1d(cin, cout, k, s, d, padding_mode, kwargs) ==
    IF "padding" \in kwargs THEN Raised("AssertionError")
    ELSE IF kwargs \ {"bias"} # {} THEN Raised("TypeError")
    ELSE [kind |-> "CausalConv1d", cin |-> cin, cout |-> cout,
          k |-> k, s |-> s, d |-> d,
          pad |-> CausalPadding(k, s, d),
          mode |-> IF padding_mode = "zeros" THEN "constant" ELSE padding_mode]

\* the trim without the stride term
CausalTrim_NoStride(k, s, d) == d * (k - 1)

CausalTrim(k, s, d) == d * (k - 1) - (s - 1)

CausalConvTranspose1d(cin, cout, k, s, d, kwargs) ==
    IF "padding" \in kwargs \/ "output_padding" \in kwargs
    THEN Raised("AssertionError")
    ELSE IF kwargs \ {"bias"} # {} THEN Raised("TypeError")
    ELSE [kind |-> "CausalConvTranspose1d", cin |-> cin, cout |-> cout,
          k |-> k, s |-> s, d |-> d,
          causal_trim |-> CausalTrim(k, s, d)]

ELU == [kind |-> "ELU"]

Sequential(mods) == [kind |-> "Sequential", mods |-> mods]

Residual(fn) == [kind |-> "Residual", fn |-> fn]

ResidualUnit(channels, dilation, kernel_size) ==
    Residual(Sequential(<<
        CausalConv1d(channels, channels, kernel_size, 1, dilation, "zeros", {}),
        ELU,
        CausalConv1d(channels, channels, 1, 1, 1, "zeros", {}),
        ELU >>))

Rearrange(pattern) == [kind |-> "Rearrange", pattern |-> pattern]

FiLM(dim, conditioning_dim) ==
    [kind |-> "FiLM", dim |-> dim, cdim |-> conditioning_dim]

EncoderBlock(cin, cout, stride) ==
    Sequential(<<
        ResidualUnit(cin, 1, 7),
        ResidualUnit(cin, 3, 7),
        ResidualUnit(cin, 9, 7),
        CausalConv1d(cin, cout, 2 * stride, stride, 1, "zeros", {}),
        ELU >>)

DecoderBlock(cin, cout, stride) ==
    Sequential(<<
        CausalConvTranspose1d(cin, cout, 2 * stride, stride, 1, {}),
        ResidualUnit(cout, 1, 7),
        ResidualUnit(cout, 3, 7),
        ResidualUnit(cout, 9, 7) >>)

Encoder(scale, embedding_dim) ==
    [kind |-> "Encoder",
     encoder |-> <<
        Rearrange("... samples -> ... 1 samples"),
        CausalConv1d(1, scale, 7, 1, 1, "zeros", {}),
        ELU,
        EncoderBlock(scale, 2 * scale, 2),
        EncoderBlock(2 * scale, 4 * scale, 4),
        EncoderBlock(4 * scale, 8 * scale, 5),
        EncoderBlock(8 * scale, 16 * scale, 8),
        CausalConv1d(16 * scale, embedding_dim, 3, 1, 1, "zeros", {}),
        ELU,
        Rearrange("... embedding frames -> ... frames embedding") >>]

Decoder(scale, embedding_dim, conditioning_dim) ==
    [kind |-> "Decoder",
     decoder |-> <<
        Rearrange("... frames embedding -> ... embedding frames"),
        CausalConv1d(embedding_dim, 16 * scale, 7, 1, 1, "zeros", {}),
        ELU,
        DecoderBlock(16 * scale, 8 * scale, 8),
        FiLM(8 * scale, conditioning_dim),
        DecoderBlock(8 * scale, 4 * scale, 5),
        FiLM(4 * scale, conditioning_dim),
        DecoderBlock(4 * scale, 2 * scale, 4),
        FiLM(2 * scale, conditioning_dim),
        DecoderBlock(2 * scale, scale, 2),
        FiLM(scale, conditioning_dim),
        CausalConv1d(scale, 1, 7, 1, 1, "zeros", {}),
        Rearrange("... 1 samples -> ... samples") >>]

(***************************************************************************)
(* forward of the modules.                                                 *)
(***************************************************************************)
\* einops Rearrange: "wave" has no channel axis, "cm" is channel-major
\* (channel, time), "fm" is frame-major (time, channel)
RearrangeForward(m, x) ==
    IF ~x.ok THEN Err
    ELSE CASE m.pattern = "... samples -> ... 1 samples" ->
                IF x.lay = "wave" THEN [x EXCEPT !.lay = "cm", !.ch = 1]
                ELSE Err
           [] m.pattern = "... embedding frames -> ... frames embedding" ->
                IF x.lay = "cm" THEN [x EXCEPT !.lay = "fm"] ELSE Err
           [] m.pattern = "... frames embedding -> ... embedding frames" ->
                IF x.lay = "fm" THEN [x EXCEPT !.lay = "cm"] ELSE Err
           [] m.pattern = "... 1 samples -> ... samples" ->
                IF x.lay = "cm" /\ x.ch = 1
                THEN [x EXCEPT !.lay = "wave", !.ch = 0] ELSE Err
           [] OTHER -> Err

\* x * gamma + beta, gamma and beta of shape (dim, 1) broadcast against
\* x of shape (channel, time)
FiLMForward(m, x, c) ==
    IF ~x.ok \/ x.lay # "cm" \/ c.dim # m.cdim THEN Err
    ELSE IF ~(x.ch = m.dim \/ x.ch = 1 \/ m.dim = 1) THEN Err
    ELSE [x EXCEPT !.ch = Max2(x.ch, m.dim), !.cond = TRUE]

\* the convolution without the padding
CausalConv1dForward_NoPad(m, x) == Conv1dForward(m, x)

CausalConv1dForward(m, x) == Conv1dForward(m, FPad(x, m.pad, m.mode))

\* the trim taken off the left side
CausalConvTranspose1dForward_TrimLeft(m, x) ==
    LET full == ConvTranspose1dForward(m, x) IN
    IF ~full.ok THEN Err
    ELSE [full EXCEPT !.dep = SubSeq(full.dep, m.causal_trim + 1, Len(full.dep))]

CausalConvTranspose1dForward(m, x) ==
    SliceTo(ConvTranspose1dForward(m, x), 0 - m.causal_trim)

\* fn(x) + x with torch broadcasting of the channel and time axes
ResidualAdd(y, x) ==
    LET ny == Len(y.dep)
        nx == Len(x.dep)
    IN  IF ~y.ok \/ ~x.ok \/ y.lay # x.lay THEN Err
        ELSE IF ~(y.ch = x.ch \/ y.ch = 1 \/ x.ch = 1) THEN Err
        ELSE IF ~(ny = nx \/ ny = 1 \/ nx = 1) THEN Err
        ELSE [x EXCEPT !.ch = Max2(y.ch, x.ch),
                       !.cond = y.cond \/ x.cond,
                       !.dep = [i \in 1..Max2(ny, nx) |->
                           Max2(y.dep[IF ny = 1 THEN 1 ELSE i],
                                x.dep[IF nx = 1 THEN 1 ELSE i])]]

RECURSIVE Forward(_, _)
RECURSIVE SequentialForward(_, _)

SequentialForward(mods, x) ==
    IF mods = <<>> THEN x
    ELSE LET y == Forward(Head(mods), x) IN
         IF ~y.ok THEN Err ELSE SequentialForward(Tail(mods), y)

Forward(m, x) ==
    IF ~x.ok THEN Err
    ELSE CASE m.kind = "CausalConv1d" -> CausalConv1dForward(m, x)
           [] m.kind = "CausalConvTranspose1d" -> CausalConvTranspose1dForward(m, x)
           [] m.kind = "ELU" -> x
           [] m.kind = "Rearrange" -> RearrangeForward(m, x)
           [] m.kind = "Sequential" -> SequentialForward(m.mods, x)
           [] m.kind = "Residual" -> ResidualAdd(Forward(m.fn, x), x)
           [] OTHER -> Err

IsModule(m) ==
    m.kind \in {"CausalConv1d", "CausalConvTranspose1d", "ELU",
                "Sequential", "Residual", "Rearrange", "FiLM",
                "Encoder", "Decoder", "LearnablePooling"}

(***************************************************************************)
(* State.                                                                  *)
(*   layer      the result of the last constructor call                    *)
(*   args       the arguments the constructor was called with              *)
(*   x          the input of the forward call                              *)
(*   condition  the conditioning vector of the forward call (its size)     *)
(*   stage      the position of the loop over the stages of a pipeline     *)
(*   val        the loop variable `input` of the pipeline                  *)
(*   calls      the stage calls made so far, in order                      *)
(*   out        the result of the forward call (Err when it raised)        *)
(*   pc         "new" -> "built" | "failed", then "called" for a layer,    *)
(*              "running" -> "returned" | "raised" for a pipeline          *)
(***************************************************************************)
VARIABLES layer, args, x, condition, stage, val, calls, out, pc

(***************************************************************************)
(* State of the training code (src/train.py).                              *)
(*   classifier  the EncoderClassifier wrapping the content encoder        *)
(*   batch       the batch of waveforms: its size B and one waveform       *)
(*   mask        per sample, which samples of the waveform are audio       *)
(*   labels      the result of get_batch_labels                            *)
(*   outputs     the result of the classifier on the batch                 *)
(*   loss        the (output row, label) pairs given to the criterion      *)
(*   x_pred_t    the generator output of a train_streamvc step             *)
(*   tpc         the control position of the training code                 *)
(*   streamvc    the parameters of the StreamVC model, by group            *)
(*   optimizer_generator  the parameter groups the generator optimizer     *)
(*               updates                                                   *)
(*   steps       the number of train_streamvc steps done                   *)
(* In a run of main, args is the argparse Namespace.                       *)
(***************************************************************************)
VARIABLES classifier, batch, mask, labels, outputs, loss, x_pred_t, tpc

VARIABLES streamvc, optimizer_generator, steps

run == <<streamvc, optimizer_generator, steps>>

train == <<classifier, batch, mask, labels, outputs, loss, x_pred_t, tpc,
           streamvc, optimizer_generator, steps>>

vars == <<layer, args, x, condition, stage, val, calls, out, pc,
          classifier, batch, mask, labels, outputs, loss, x_pred_t, tpc,
          streamvc, optimizer_generator, steps>>

NoLayer == [kind |-> "none"]

NoArgs == [cls |-> "none"]

None == [ok |-> FALSE, lay |-> "unset", ch |-> 0, cond |-> FALSE, dep |-> <<>>]

NoCondition == [dim |-> 0]

PaddingModes == {"zeros", "replicate", "bogus"}

Kwargs == {{}, {"bias"}, {"padding"}, {"output_padding"}}

Init ==
    /\ layer = NoLayer
    /\ args = NoArgs
    /\ x = None
    /\ condition = NoCondition
    /\ stage = 0
    /\ val = None
    /\ calls = <<>>
    /\ out = None
    /\ pc = "new"
    /\ classifier = NoLayer
    /\ batch = [B |-> 0, x |-> None]
    /\ mask = <<>>
    /\ labels = [ok |-> FALSE, v |-> <<>>]
    /\ outputs = None
    /\ loss = [ok |-> FALSE, v |-> <<>>]
    /\ x_pred_t = None
    /\ tpc = "new"
    /\ streamvc = <<>>
    /\ optimizer_generator = {}
    /\ steps = 0

AfterNew(m) ==
    /\ layer' = m
    /\ pc' = IF IsModule(m) THEN "built" ELSE "failed"
    /\ UNCHANGED <<x, condition, stage, val, calls, out, train>>

NewCausalConv1d ==
    /\ pc = "new"
    /\ \E cin \in 1..MaxChannels, k \in 1..MaxKernel, s \in 1..MaxStride,
          d \in 1..MaxDilation, pm \in PaddingModes, kw \in Kwargs :
         /\ args' = [cls |-> "CausalConv1d", cin |-> cin, k |-> k, s |-> s,
                     d |-> d, padding_mode |-> pm, kwargs |-> kw]
         /\ AfterNew(CausalConv1d(cin, cin, k, s, d, pm, kw))

NewCausalConvTranspose1d ==
    /\ pc = "new"
    /\ \E cin \in 1..MaxChannels, k \in 1..MaxKernel, s \in 1..MaxStride,
          d \in 1..MaxDilation, kw \in Kwargs :
         /\ args' = [cls |-> "CausalConvTranspose1d", cin |-> cin, k |-> k,
                     s |-> s, d |-> d, kwargs |-> kw]
         /\ AfterNew(CausalConvTranspose1d(cin, cin, k, s, d, kw))

NewResidualUnit ==
    /\ pc = "new"
    /\ \E c \in 1..MaxChannels, k \in 1..MaxKernel, d \in 1..MaxDilation :
         /\ args' = [cls |-> "ResidualUnit", cin |-> c, k |-> k, d |-> d]
         /\ AfterNew(ResidualUnit(c, d, k))

CallForward ==
    /\ pc = "built"
    /\ layer.kind \in {"CausalConv1d", "CausalConvTranspose1d", "Residual"}
    /\ \E T \in 1..MaxLen, c \in 1..MaxChannels :
         /\ x' = Tensor("cm", c, FALSE, Iota(T))
         /\ out' = Forward(layer, x')
         /\ pc' = "called"
    /\ UNCHANGED <<layer, args, condition, stage, val, calls, train>>

LayerNext ==
    \/ NewCausalConv1d
    \/ NewCausalConvTranspose1d
    \/ NewResidualUnit
    \/ CallForward

SpecLayer == Init /\ [][LayerNext]_vars

(***************************************************************************)
(* Pipelines: the loop over the stages, one iteration per step.            *)
(***************************************************************************)
Call(i, m, c, a, y) ==
    [stage |-> i, kind |-> m.kind, condition |-> c,
     inlay |-> a.lay, inch |-> a.ch, inlen |-> Len(a.dep),
     ok |-> y.ok, outlay |-> y.lay, outch |-> y.ch, outlen |-> Len(y.dep)]

\* the loop body has run stage `stage` of `stages` with result y
Advance(stages, y) ==
    IF ~y.ok
    THEN /\ pc' = "raised"
         /\ val' = Err
         /\ out' = Err
         /\ stage' = stage
    ELSE /\ val' = y
         /\ stage' = stage + 1
         /\ pc' = IF stage = Len(stages) THEN "returned" ELSE "running"
         /\ out' = IF stage = Len(stages) THEN y ELSE out

Residues == {0, 1, 319}

\* one second of 16 kHz audio
Examples == {16000}

EncoderLengths ==
    ({320 * f + r : f \in 0..MaxEncFrames, r \in Residues} \ {0}) \cup Examples

NewEncoder ==
    /\ pc = "new"
    /\ \E scale \in 1..MaxScale, e \in 1..MaxEmbedding :
         /\ args' = [cls |-> "Encoder", scale |-> scale, embedding_dim |-> e]
         /\ AfterNew(Encoder(scale, e))

\* Encoder.forward(x): entry of self.encoder(x)
EncoderCall ==
    /\ pc = "built"
    /\ layer.kind = "Encoder"
    /\ \E T \in EncoderLengths :
         /\ x' = Tensor("wave", 0, FALSE, Iota(T))
         /\ val' = x'
    /\ stage' = 1
    /\ calls' = <<>>
    /\ pc' = "running"
    /\ UNCHANGED <<layer, args, condition, out, train>>

\* nn.Sequential.forward: input = module(input)
SequentialStep ==
    /\ pc = "running"
    /\ layer.kind = "Encoder"
    /\ LET m == layer.encoder[stage]
           y == Forward(m, val)
       IN  /\ calls' = Append(calls, Call(stage, m, NoCondition, val, y))
           /\ Advance(layer.encoder, y)
    /\ UNCHANGED <<layer, args, x, condition, train>>

EncoderNext ==
    \/ NewEncoder
    \/ EncoderCall
    \/ SequentialStep

SpecEncoder == Init /\ [][EncoderNext]_vars

NewDecoder ==
    /\ pc = "new"
    /\ \E scale \in 1..MaxScale, e \in 1..MaxEmbedding, c \in 1..MaxCond :
         /\ args' = [cls |-> "Decoder", scale |-> scale, embedding_dim |-> e,
                     conditioning_dim |-> c]
         /\ AfterNew(Decoder(scale, e, c))

\* Decoder.forward(x, condition): entry of self.decoder(x, condition)
DecoderCall ==
    /\ pc = "built"
    /\ layer.kind = "Decoder"
    /\ \E F \in 1..MaxDecFrames, e \in 1..MaxEmbedding, c \in 1..MaxCond :
         /\ x' = Tensor("fm", e, FALSE, Iota(F))
         /\ val' = x'
         /\ condition' = [dim |-> c]
    /\ stage' = 1
    /\ calls' = <<>>
    /\ pc' = "running"
    /\ UNCHANGED <<layer, args, out, train>>

\* isinstance(module, FiLM)
TakesCondition_AnyContainer(m) == m.kind \in {"FiLM", "Sequential"}

TakesCondition(m) == m.kind = "FiLM"

\* SequentialWithFiLM.forward: one iteration of the loop
SequentialWithFiLMStep ==
    /\ pc = "running"
    /\ layer.kind = "Decoder"
    /\ LET m == layer.decoder[stage] IN
       IF TakesCondition(m)
       THEN LET y == IF m.kind = "FiLM" THEN FiLMForward(m, val, condition)
                     ELSE Err
            IN  /\ calls' = Append(calls, Call(stage, m, condition, val, y))
                /\ Advance(layer.decoder, y)
       ELSE LET y == Forward(m, val)
            IN  /\ calls' = Append(calls, Call(stage, m, NoCondition, val, y))
                /\ Advance(layer.decoder, y)
    /\ UNCHANGED <<layer, args, x, condition, train>>

DecoderNext ==
    \/ NewDecoder
    \/ DecoderCall
    \/ SequentialWithFiLMStep

SpecDecoder == Init /\ [][DecoderNext]_vars

(***************************************************************************)
(* FiLM on values.  Here a tensor is [ok, v] with v the nested sequence of *)
(* its (integer) entries: x is (batch, channel, time), the condition is    *)
(* (batch, conditioning_dim).                                              *)
(***************************************************************************)
Val(v) == [ok |-> TRUE, v |-> v]

Bad == [ok |-> FALSE, v |-> <<>>]

RECURSIVE Sum(_, _)

Sum(f, n) == IF n = 0 THEN 0 ELSE f[n] + Sum(f, n - 1)

\* nn.Linear(in_features, out_features) with the given weight and bias
Linear(in_features, out_features, w, b) ==
    [in_features |-> in_features, out_features |-> out_features,
     weight |-> [j \in 1..out_features |-> [i \in 1..in_features |-> w[j]]],
     bias |-> [j \in 1..out_features |-> b[j]]]

\* y = c W^T + bias on a (batch, in_features) input
LinearForward(lin, c) ==
    IF ~c.ok \/ \E r \in 1..Len(c.v) : Len(c.v[r]) # lin.in_features THEN Bad
    ELSE Val([r \in 1..Len(c.v) |-> [j \in 1..lin.out_features |->
             Sum([i \in 1..lin.in_features |-> lin.weight[j][i] * c.v[r][i]],
                 lin.in_features) + lin.bias[j]]])

\* unsqueeze(dim=0) of a (batch, dim) tensor: (1, batch, dim)
Unsqueeze_Front(t) ==
    IF ~t.ok THEN Bad ELSE Val(<<t.v>>)

\* unsqueeze(dim=-1) of a (batch, dim) tensor: (batch, dim, 1)
Unsqueeze(t) ==
    IF ~t.ok THEN Bad
    ELSE Val([r \in 1..Len(t.v) |-> [j \in 1..Len(t.v[r]) |-> <<t.v[r][j]>>]])

Dim(t) == <<Len(t.v), Len(t.v[1]), Len(t.v[1][1])>>

\* the elementwise operations of FiLM.forward
Elementwise(op, a, b) == IF op = "*" THEN a * b ELSE a + b

\* an elementwise binary operation of two rank-3 tensors, with broadcasting
Broadcast(op, a, b) ==
    IF ~a.ok \/ ~b.ok THEN Bad
    ELSE LET da == Dim(a)
             db == Dim(b)
             ix(n, i) == IF n = 1 THEN 1 ELSE i
         IN  IF \E k \in 1..3 : da[k] # db[k] /\ da[k] # 1 /\ db[k] # 1 THEN Bad
             ELSE Val([i \in 1..Max2(da[1], db[1]) |->
                      [j \in 1..Max2(da[2], db[2]) |->
                       [k \in 1..Max2(da[3], db[3]) |->
                          Elementwise(op,
                             a.v[ix(da[1], i)][ix(da[2], j)][ix(da[3], k)],
                             b.v[ix(db[1], i)][ix(db[2], j)][ix(db[3], k)])]]])

FiLMLayer(dim, conditioning_dim, wg, bg, wb, bb) ==
    [kind |-> "FiLM", dim |-> dim, cdim |-> conditioning_dim,
     to_gamma |-> Linear(conditioning_dim, dim, wg, bg),
     to_beta |-> Linear(conditioning_dim, dim, wb, bb)]

FiLMForwardValues(m, t, c) ==
    LET gamma == Unsqueeze(LinearForward(m.to_gamma, c))
        beta  == Unsqueeze(LinearForward(m.to_beta, c))
    IN  Broadcast("+", Broadcast("*", t, gamma), beta)

\* the parameter vectors and inputs the model draws from
Vectors(n) == {[j \in 1..n |-> 0], [j \in 1..n |-> 1], [j \in 1..n |-> j]}

Ramp(B, C, T, base, step) ==
    Val([b \in 1..B |-> [c \in 1..C |-> [t \in 1..T |->
        base + step * ((b - 1) * C * T + (c - 1) * T + (t - 1))]]])

Ramp2(B, C, base, step) ==
    Val([b \in 1..B |-> [c \in 1..C |-> base + step * ((b - 1) * C + (c - 1))]])

NewFiLM ==
    /\ pc = "new"
    /\ \E dim \in 1..MaxChannels, cdim \in 1..MaxCond :
       \E wg \in Vectors(dim), bg \in Vectors(dim),
          wb \in Vectors(dim), bb \in Vectors(dim) :
         /\ args' = [cls |-> "FiLM", dim |-> dim, conditioning_dim |-> cdim]
         /\ AfterNew(FiLMLayer(dim, cdim, wg, bg, wb, bb))

FiLMCall ==
    /\ pc = "built"
    /\ layer.kind = "FiLM"
    /\ \E B \in 1..MaxBatch, T \in 1..MaxTime,
          base \in {0 - 1, 1}, step \in {0, 1}, cbase \in {0, 1}, cstep \in {0, 1} :
         /\ x' = Ramp(B, layer.dim, T, base, step)
         /\ condition' = Ramp2(B, layer.cdim, cbase, cstep)
         /\ out' = FiLMForwardValues(layer, x', condition')
    /\ pc' = "called"
    /\ UNCHANGED <<layer, args, stage, val, calls, train>>

FiLMNext ==
    \/ NewFiLM
    \/ FiLMCall

SpecFiLM == Init /\ [][FiLMNext]_vars

(***************************************************************************)
(* LearnablePooling on shapes: a tensor is its shape, a sequence of        *)
(* dimension sizes; a Python value is a tensor, a tuple or a raised error. *)
(***************************************************************************)
TensorOf(shape) == [kind |-> "tensor", shape |-> shape]

TupleOf(items) == [kind |-> "tuple", items |-> items]

\* nn.MultiheadAttention(embed_dim, num_heads=1, bias=False, batch_first=True)
MultiheadAttention(embed_dim, batch_first) ==
    [kind |-> "MultiheadAttention", embed_dim |-> embed_dim,
     batch_first |-> batch_first]

\* nn.MultiheadAttention.forward(query, key, value) with need_weights=True:
\* a batched call takes three 3-D tensors, an unbatched call three 2-D
\* tensors; the result is the tuple (attn_output, attn_output_weights)
MultiheadAttentionForward(m, query, key, value) ==
    LET q == query.shape
        k == key.shape
        v == value.shape
    IN  IF Len(q) = 3
        THEN IF Len(k) # 3 \/ Len(v) # 3 THEN Raised("AssertionError")
             ELSE IF q[3] # m.embed_dim \/ k[3] # m.embed_dim \/ v[3] # m.embed_dim
                     \/ q[1] # k[1] \/ k[1] # v[1] \/ k[2] # v[2]
                  THEN Raised("AssertionError")
                  ELSE TupleOf(<<TensorOf(<<q[1], q[2], m.embed_dim>>),
                                 TensorOf(<<q[1], q[2], k[2]>>)>>)
        ELSE IF Len(q) = 2
        THEN IF Len(k) # 2 \/ Len(v) # 2 THEN Raised("AssertionError")
             ELSE IF q[2] # m.embed_dim \/ k[2] # m.embed_dim \/ v[2] # m.embed_dim
                     \/ k[1] # v[1]
                  THEN Raised("AssertionError")
                  ELSE TupleOf(<<TensorOf(<<q[1], m.embed_dim>>),
                                 TensorOf(<<q[1], k[1]>>)>>)
        ELSE Raised("AssertionError")

\* tensor.squeeze(dim): the dimension is removed where its size is 1
Squeeze(shape, dim) ==
    LET n == Len(shape)
        d == IF dim < 0 THEN n + dim + 1 ELSE dim + 1
    IN  IF d < 1 \/ d > n THEN Raised("IndexError")
        ELSE IF shape[d] # 1 THEN TensorOf(shape)
        ELSE TensorOf([i \in 1..(n - 1) |-> IF i < d THEN shape[i] ELSE shape[i + 1]])

\* value.squeeze(dim): only a tensor has the method
CallSqueeze(value, dim) ==
    IF value.kind = "tensor" THEN Squeeze(value.shape, dim)
    ELSE IF value.kind = "tuple" THEN Raised("AttributeError")
    ELSE value

LearnablePooling(dim) ==
    [kind |-> "LearnablePooling", dim |-> dim,
     pooling_weights |-> TensorOf(<<1, dim>>),
     attention |-> MultiheadAttention(dim, TRUE)]

LearnablePoolingForward(m, embeddings) ==
    CallSqueeze(MultiheadAttentionForward(m.attention, m.pooling_weights,
                                          embeddings, embeddings), 0 - 2)

\* sequence lengths of the spec's examples
PoolExamples == {10, 1000}

\* the leading dimensions of an embedding sequence: none, (batch,), (a, b)
LeadingDims == {<<>>} \cup {<<b>> : b \in 1..MaxBatch}
                 \cup {<<a, b>> : a, b \in 1..MaxBatch}

NewLearnablePooling ==
    /\ pc = "new"
    /\ \E dim \in 1..MaxEmbedding :
         /\ args' = [cls |-> "LearnablePooling", dim |-> dim]
         /\ AfterNew(LearnablePooling(dim))

LearnablePoolingCall ==
    /\ pc = "built"
    /\ layer.kind = "LearnablePooling"
    /\ \E lead \in LeadingDims, frames \in (1..MaxTime) \cup PoolExamples,
          dim \in 1..MaxEmbedding :
         /\ x' = TensorOf(lead \o <<frames, dim>>)
         /\ out' = LearnablePoolingForward(layer, x')
    /\ pc' = "called"
    /\ UNCHANGED <<layer, args, condition, stage, val, calls, train>>

PoolingNext ==
    \/ NewLearnablePooling
    \/ LearnablePoolingCall

SpecPooling == Init /\ [][PoolingNext]_vars

(***************************************************************************)
(* Training of the content encoder (src/train.py): get_batch_labels and    *)
(* the EncoderClassifier on the same batch, as in train_content_encoder    *)
(* and compute_content_encoder_accuracy.                                   *)
(***************************************************************************)
net == <<layer, args, x, condition, stage, val, calls, out, pc>>

NUM_CLASSES == 100

EMBEDDING_DIMS == 64

SAMPLES_PER_FRAME == 320

EncoderClassifier(encoder, in_features, out_features, kwargs) ==
    IF kwargs # {} THEN Raised("TypeError")
    ELSE [kind |-> "EncoderClassifier", encoder |-> encoder,
          norm |-> [kind |-> "LayerNorm", normalized_shape |-> in_features],
          linear |-> [kind |-> "Linear", in_features |-> in_features,
                      out_features |-> out_features]]

\* Encoder.forward: self.encoder(x)
EncoderForward(m, t) == SequentialForward(m.encoder, t)

\* nn.LayerNorm over the last axis of a frame-major tensor
LayerNormForward(m, t) ==
    IF ~t.ok \/ t.lay # "fm" \/ t.ch # m.normalized_shape THEN Err ELSE t

\* nn.Linear over the last axis of a frame-major tensor
LinearLayerForward(m, t) ==
    IF ~t.ok \/ t.lay # "fm" \/ t.ch # m.in_features THEN Err
    ELSE [t EXCEPT !.ch = m.out_features]

EncoderClassifierForward(m, t) ==
    LinearLayerForward(m.linear, LayerNormForward(m.norm, EncoderForward(m.encoder, t)))

\* the windows of tensor.unfold(dimension=-1, size, step) over n elements;
\* <<>> stands for the RuntimeError of size > n
\* the windows counted with a partial last window
Unfold_Partial(n, size, step) ==
    IF size > n THEN <<>>
    ELSE [w \in 1..((n + step - 1) \div step) |->
              (w - 1) * step + 1 .. Min2((w - 1) * step + size, n)]

Unfold(n, size, step) ==
    IF size > n THEN <<>>
    ELSE [w \in 1..(((n - size) \div step) + 1) |->
              (w - 1) * step + 1 .. (w - 1) * step + size]

\* mask.unfold(...).all(dim=-1) of one row of the mask
FrameMask(row) ==
    LET windows == Unfold(Len(row), SAMPLES_PER_FRAME, SAMPLES_PER_FRAME) IN
    [w \in 1..Len(windows) |-> \A i \in windows[w] : row[i]]

\* hubert_model.units of one sample: h discrete units, one per frame
HubertUnits(h) == [j \in 1..h |-> [frame |-> j - 1, unit |-> (j - 1) % NUM_CLASSES]]

Masked(l) == [l EXCEPT !.unit = 0 - 1]

GetBatchLabels(h, b, m) ==
    IF \E r \in 1..b.B :
          Unfold(Len(m[r]), SAMPLES_PER_FRAME, SAMPLES_PER_FRAME) = <<>>
    THEN [ok |-> FALSE, v |-> <<>>]
    ELSE LET frame_mask == [r \in 1..b.B |-> FrameMask(m[r])]
             stacked == [r \in 1..b.B |-> HubertUnits(h)]
         IN  IF \E r \in 1..b.B : Len(stacked[r]) # Len(frame_mask[r])
             THEN [ok |-> FALSE, v |-> <<>>]
             ELSE [ok |-> TRUE,
                   v |-> [r \in 1..b.B |-> [j \in 1..h |->
                            IF frame_mask[r][j] THEN stacked[r][j]
                            ELSE Masked(stacked[r][j])]]]

\* tensor.view(-1, ...) / tensor.view(-1) of a (B, n, ...) tensor: row-major
Flatten(rows, B, n) ==
    [r \in 1..(B * n) |-> rows[((r - 1) \div n) + 1][((r - 1) % n) + 1]]

\* nn.CrossEntropyLoss(ignore_index=-1): the (row, label) pairs it sums over
Criterion(outputs_flat, labels_flat) ==
    IF Len(outputs_flat) # Len(labels_flat) THEN [ok |-> FALSE, v |-> <<>>]
    ELSE [ok |-> TRUE,
          v |-> [r \in 1..Len(labels_flat) |->
                   [row |-> outputs_flat[r], label |-> labels_flat[r],
                    ignored |-> labels_flat[r].unit = 0 - 1]]]

TrainLengths ==
    {SAMPLES_PER_FRAME * f + r : f \in 0..MaxTrainFrames, r \in Residues} \ {0}

\* the number of audio samples of a padded waveform of T samples
ValidLengths(T) == {T, T - 1, T \div 2}

\* the frame counts the external HuBERT model may answer with
HubertFrames(T) == {T \div SAMPLES_PER_FRAME, (T + SAMPLES_PER_FRAME - 1) \div SAMPLES_PER_FRAME}

NewEncoderClassifier ==
    /\ tpc = "new"
    /\ \E e \in {EMBEDDING_DIMS, MaxEmbedding}, kw \in {{}, {"dropout"}} :
         LET m == EncoderClassifier(Encoder(1, e), EMBEDDING_DIMS, NUM_CLASSES, kw) IN
         /\ classifier' = m
         /\ tpc' = IF m.kind = "EncoderClassifier" THEN "built" ELSE "failed"
    /\ UNCHANGED <<net, run, batch, mask, labels, outputs, loss, x_pred_t>>

\* one (batch, mask) of the dataloader
NextBatch ==
    /\ tpc = "built"
    /\ \E B \in 1..MaxBatch, T \in TrainLengths :
       \E valid \in [1..B -> ValidLengths(T)] :
         /\ batch' = [B |-> B, x |-> Tensor("wave", 0, FALSE, Iota(T))]
         /\ mask' = [r \in 1..B |-> [i \in 1..T |-> i <= valid[r]]]
    /\ tpc' = "batch"
    /\ UNCHANGED <<net, run, classifier, labels, outputs, loss, x_pred_t>>

\* labels = get_batch_labels(hubert_model, batch, mask)
GetBatchLabelsCall ==
    /\ tpc = "batch"
    /\ \E h \in HubertFrames(Len(batch.x.dep)) :
         labels' = GetBatchLabels(h, batch, mask)
    /\ tpc' = IF labels'.ok THEN "labelled" ELSE "raised"
    /\ UNCHANGED <<net, run, classifier, batch, mask, outputs, loss, x_pred_t>>

\* outputs = wrapped_content_encoder(batch); the two views; the criterion
ForwardAndLoss ==
    /\ tpc = "labelled"
    /\ outputs' = EncoderClassifierForward(classifier, batch.x)
    /\ IF outputs'.ok
       THEN LET n == Len(outputs'.dep)
                outputs_flat == Flatten([r \in 1..batch.B |->
                                    [j \in 1..n |-> [sample |-> r, dep |-> outputs'.dep[j]]]],
                                    batch.B, n)
                labels_flat == Flatten(labels.v, batch.B, Len(labels.v[1]))
            IN  /\ loss' = Criterion(outputs_flat, labels_flat)
                /\ tpc' = IF loss'.ok THEN "compared" ELSE "raised"
       ELSE /\ loss' = [ok |-> FALSE, v |-> <<>>]
            /\ tpc' = "raised"
    /\ UNCHANGED <<net, run, classifier, batch, mask, labels, x_pred_t>>

LabelsNext ==
    \/ NewEncoderClassifier
    \/ NextBatch
    \/ GetBatchLabelsCall
    \/ ForwardAndLoss

SpecLabels == Init /\ [][LabelsNext]_vars

(***************************************************************************)
(* main and train_streamvc (src/train.py).  The StreamVC model is its      *)
(* parameters in two groups, those of content_encoder and the others; a    *)
(* group has the origin of its weights, the number of optimizer updates    *)
(* and requires_grad.                                                      *)
(***************************************************************************)
modules == <<layer, x, condition, stage, val, calls, out, pc>>

Modes == {"content-encoder", "decoder-and-speaker", "all"}

\* --content-encoder-checkpoint: the default, a checkpoint of an
\* EncoderClassifier, a path with no file
Checkpoints == {"", "encoder.safetensors", "missing.safetensors"}

ParameterGroups == {"content_encoder", "other"}

StreamVC ==
    [g \in ParameterGroups |-> [weights |-> "init", updates |-> 0, requires_grad |-> TRUE]]

SetWeights(model, g, origin) ==
    [model EXCEPT ![g] = [@ EXCEPT !.weights = origin, !.updates = 0]]

\* st.safe_open(path, "pt") and the keys under "encoder."
SafeOpen(path) ==
    IF path = "encoder.safetensors" THEN [kind |-> "checkpoint", keys |-> {"encoder."}]
    ELSE Raised("FileNotFoundError")

\* train_streamvc without the loop that clears requires_grad
FreezeContentEncoder_None(model) == model

\* for param in generator.content_encoder.parameters(): param.requires_grad = False
FreezeContentEncoder(model) ==
    [model EXCEPT !["content_encoder"] = [@ EXCEPT !.requires_grad = FALSE]]

\* [param for param in generator.parameters() if param.requires_grad]
TrainableParameters(model) == {g \in DOMAIN model : model[g].requires_grad}

\* optimizer_generator.step()
OptimizerStep(model, optimizer) ==
    [g \in DOMAIN model |->
        IF g \in optimizer THEN [model[g] EXCEPT !.updates = @ + 1] ELSE model[g]]

\* the cut of one frame only
SkippedSamples_OneFrame == SAMPLES_PER_FRAME

\* SAMPLES_PER_FRAME * 2
SkippedSamples == SAMPLES_PER_FRAME * 2

\* t[..., start:] for start >= 0
SliceFrom(t, start) ==
    IF ~t.ok THEN Err
    ELSE [t EXCEPT !.dep = SubSeq(t.dep, Min2(start, Len(t.dep)) + 1, Len(t.dep))]

\* the lengths the generator may answer with for a batch of T samples
GeneratorLengths(T) ==
    {T, SAMPLES_PER_FRAME * (T \div SAMPLES_PER_FRAME),
     T + SkippedSamples, T + SkippedSamples + 1, SkippedSamples, SkippedSamples - 1}

\* __main__: parse_args and the assert on the checkpoint
ParseArgs ==
    /\ tpc = "new"
    /\ \E mode \in Modes, path \in Checkpoints :
         /\ args' = [cls |-> "Namespace", module_to_train |-> mode,
                     content_encoder_checkpoint |-> path]
         /\ tpc' = IF mode = "decoder-and-speaker" /\ path = ""
                   THEN "raised" ELSE "main"
    /\ UNCHANGED <<modules, classifier, batch, mask, labels, outputs, loss,
                   x_pred_t, run>>

\* main up to the call of train_streamvc: StreamVC(...), then the content
\* encoder is trained (train_content_encoder) or loaded from the checkpoint
SetContentEncoder ==
    /\ tpc = "main"
    /\ IF args.module_to_train \in {"content-encoder", "all"}
       THEN LET wrapped == EncoderClassifier(Encoder(1, EMBEDDING_DIMS),
                                             EMBEDDING_DIMS, NUM_CLASSES, {"dropout"})
            IN  /\ classifier' = wrapped
                /\ IF wrapped.kind = "EncoderClassifier"
                   THEN /\ streamvc' = SetWeights(StreamVC, "content_encoder", "trained")
                        /\ tpc' = "encoder_set"
                   ELSE /\ streamvc' = StreamVC
                        /\ tpc' = "raised"
       ELSE LET checkpoint == SafeOpen(args.content_encoder_checkpoint)
            IN  /\ classifier' = classifier
                /\ IF checkpoint.kind = "checkpoint"
                   THEN /\ streamvc' = SetWeights(StreamVC, "content_encoder", "loaded")
                        /\ tpc' = "encoder_set"
                   ELSE /\ streamvc' = StreamVC
                        /\ tpc' = "raised"
    /\ UNCHANGED <<net, batch, mask, labels, outputs, loss, x_pred_t,
                   optimizer_generator, steps>>

\* train_streamvc up to the loop: the content encoder is frozen, then the
\* generator optimizer is built over the parameters that require a gradient
TrainStreamVC ==
    /\ tpc = "encoder_set"
    /\ args.module_to_train \in {"decoder-and-speaker", "all"}
    /\ streamvc' = FreezeContentEncoder(streamvc)
    /\ optimizer_generator' = TrainableParameters(streamvc')
    /\ tpc' = "training"
    /\ UNCHANGED <<net, classifier, batch, mask, labels, outputs, loss,
                   x_pred_t, steps>>

\* for step, (batch, mask) in enumerate(islice(dataloader, ...))
StreamVCBatch ==
    /\ tpc = "training"
    /\ steps < MaxSteps
    /\ \E B \in 1..MaxBatch, T \in TrainLengths :
         batch' = [B |-> B, x |-> Tensor("wave", 0, FALSE, Iota(T))]
    /\ tpc' = "loaded"
    /\ UNCHANGED <<net, classifier, mask, labels, outputs, loss, x_pred_t, run>>

\* x_pred_t = generator(batch, batch)
GeneratorCall ==
    /\ tpc = "loaded"
    /\ \E G \in GeneratorLengths(Len(batch.x.dep)) :
         x_pred_t' = Tensor("wave", 0, FALSE, Iota(G))
    /\ tpc' = "generated"
    /\ UNCHANGED <<net, classifier, batch, mask, labels, outputs, loss, run>>

\* the rest of the step: the cut, the truncation, the losses on
\* (batch, x_pred_t) and the optimizer step; the losses are certain to
\* accept only non-empty tensors of equal length
CutAndStep ==
    /\ tpc = "generated"
    /\ x_pred_t' = SliceFrom(x_pred_t, SkippedSamples)
    /\ batch' = [batch EXCEPT !.x = SliceTo(batch.x, Len(x_pred_t'.dep))]
    /\ \E accepted \in IF Len(x_pred_t'.dep) = Len(batch'.x.dep) /\ Len(x_pred_t'.dep) > 0
                        THEN {TRUE} ELSE BOOLEAN :
         IF accepted
         THEN /\ streamvc' = OptimizerStep(streamvc, optimizer_generator)
              /\ steps' = steps + 1
              /\ tpc' = "training"
         ELSE /\ UNCHANGED <<streamvc, steps>>
              /\ tpc' = "raised"
    /\ UNCHANGED <<net, classifier, mask, labels, outputs, loss, optimizer_generator>>

\* accelerator.end_training()
EndTraining ==
    /\ \/ tpc = "encoder_set" /\ args.module_to_train = "content-encoder"
       \/ tpc = "training"
    /\ tpc' = "done"
    /\ UNCHANGED <<net, classifier, batch, mask, labels, outputs, loss,
                   x_pred_t, run>>

MainNext ==
    \/ ParseArgs
    \/ SetContentEncoder
    \/ TrainStreamVC
    \/ StreamVCBatch
    \/ GeneratorCall
    \/ CutAndStep
    \/ EndTraining

SpecMain == Init /\ [][MainNext]_vars

(***************************************************************************)
(* Properties of the single layers.                                        *)
(***************************************************************************)
CeilDiv(a, b) == (a + b - 1) \div b

TimeLen(t) == Len(t.dep)

ConvCalled ==
    /\ pc = "called"
    /\ args.cls = "CausalConv1d"
    /\ args.padding_mode \in {"zeros", "replicate"}
    /\ x.ch = args.cin

\* C4 as stated: the pad amount is dilation*(kernel_size-1) - (stride-1) and
\* a CausalConv1d call on T time steps returns ceil(T/stride) time steps.
C4_Original ==
    (ConvCalled /\ out.ok) =>
        /\ layer.pad = args.d * (args.k - 1) - (args.s - 1)
        /\ TimeLen(out) = CeilDiv(TimeLen(x), args.s)

\* C4 amended: the pad amount is p = dilation*(kernel_size-1) - (stride-1),
\* on the left only (output step j reads no input step after j*stride +
\* stride-1, and reads that one); for T >= stride the call returns
\* floor((T + p - dilation*(kernel_size-1) - 1)/stride) + 1 = floor(T/stride)
\* time steps, and for T < stride it raises.
C4_ConvLength ==
    ConvCalled =>
        LET T == TimeLen(x)
            p == args.d * (args.k - 1) - (args.s - 1)
        IN  /\ layer.pad = p
            /\ T >= args.s =>
                  /\ out.ok
                  /\ TimeLen(out) = ((T + p - args.d * (args.k - 1) - 1) \div args.s) + 1
                  /\ TimeLen(out) = T \div args.s
                  /\ \A j \in 1..TimeLen(out) : out.dep[j] = j * args.s - 1
            /\ T < args.s => ~out.ok

C4_Witness ==
    /\ ConvCalled
    /\ args.s = 2 /\ args.k = 3 /\ args.d = 2
    /\ TimeLen(x) = 5
    /\ out.ok /\ TimeLen(out) = 2

ConvTransposeCalled ==
    /\ pc = "called"
    /\ args.cls = "CausalConvTranspose1d"
    /\ args.d = 1
    /\ args.k >= args.s
    /\ x.ch = args.cin

\* C5: a CausalConvTranspose1d call with dilation 1 and kernel_size >= stride
\* returns the transposed convolution without its last causal_trim steps,
\* T*stride time steps in all, also when causal_trim is 0.
C5_TransposeLength ==
    ConvTransposeCalled =>
        LET full == ConvTranspose1dForward(layer, x) IN
        /\ out.ok
        /\ layer.causal_trim = (args.k - 1) - (args.s - 1)
        /\ TimeLen(out) = TimeLen(full) - layer.causal_trim
        /\ out.dep = SubSeq(full.dep, 1, TimeLen(full) - layer.causal_trim)
        /\ TimeLen(out) = TimeLen(x) * args.s

ResidualUnitCalled ==
    /\ pc = "called"
    /\ args.cls = "ResidualUnit"
    /\ x.ch = args.cin

\* C8: the transform wrapped by a ResidualUnit returns the channel count
\* and the time length of its input, and the residual addition succeeds.
C8_ResidualShape ==
    ResidualUnitCalled =>
        LET y == Forward(layer.fn, x) IN
        /\ y.ok
        /\ y.ch = x.ch
        /\ TimeLen(y) = TimeLen(x)
        /\ out.ok
        /\ out.ch = x.ch
        /\ TimeLen(out) = TimeLen(x)

C8_Witness ==
    /\ ResidualUnitCalled
    /\ args.k = 3 /\ args.d = 2 /\ args.cin = 2
    /\ TimeLen(x) = 4
    /\ out.ok /\ TimeLen(out) = 4 /\ out.ch = 2

\* C9: an explicit padding argument (CausalConv1d), an explicit padding or
\* output_padding argument (CausalConvTranspose1d) and an unsupported
\* padding_mode (CausalConv1d) each make the constructor fail.
C9_ConfigErrors ==
    /\ (args.cls = "CausalConv1d" /\ "padding" \in args.kwargs) => pc = "failed"
    /\ (args.cls = "CausalConvTranspose1d"
           /\ args.kwargs \cap {"padding", "output_padding"} # {}) => pc = "failed"
    /\ (args.cls = "CausalConv1d"
           /\ args.padding_mode \notin {"zeros", "replicate"}) => pc = "failed"

(***************************************************************************)
(* Properties of the Encoder.                                              *)
(***************************************************************************)
EncoderReturned == pc = "returned" /\ layer.kind = "Encoder"

\* the product of the strides of the stages before stage i of the Encoder
EncoderStride(i) ==
    CASE i <= 4 -> 1
      [] i = 5 -> 2
      [] i = 6 -> 2 * 4
      [] i = 7 -> 2 * 4 * 5
      [] OTHER -> 2 * 4 * 5 * 8

\* C1: output frame j of the Encoder is computed from no input sample
\* after 320*j + 319, so it is the same in any two runs whose inputs agree
\* on the samples up to the end of its window; the same holds after every
\* stage with the product of the strides so far in place of 320.
C1_EncoderCausal ==
    /\ EncoderReturned =>
          \A j \in 0..(TimeLen(out) - 1) : out.dep[j + 1] <= 320 * j + 319
    /\ (pc = "running" /\ layer.kind = "Encoder") =>
          \A j \in 0..(TimeLen(val) - 1) :
              val.dep[j + 1] <= EncoderStride(stage) * j + EncoderStride(stage) - 1

C1_Witness ==
    /\ EncoderReturned
    /\ TimeLen(x) = 641
    /\ out.dep = <<319, 639>>

\* C2 as stated: the Encoder returns ceil(samples / 320) frames.
C2_Original ==
    EncoderReturned => TimeLen(out) = CeilDiv(TimeLen(x), 320)

\* C2 amended: for samples >= 320 the Encoder returns floor(samples / 320)
\* frames, the composition of the per-layer lengths floor(T / stride) over
\* the strides 1, 2, 4, 5, 8, 1, and 16000 samples give 50 frames; for
\* samples < 320 the call raises.
C2_EncoderFrames ==
    (layer.kind = "Encoder" /\ pc \in {"returned", "raised"}) =>
        LET T == TimeLen(x) IN
        /\ T >= 320 =>
              /\ pc = "returned"
              /\ out.lay = "fm"
              /\ out.ch = args.embedding_dim
              /\ TimeLen(out) = T \div 320
              /\ TimeLen(out) = (((((T \div 1) \div 2) \div 4) \div 5) \div 8) \div 1
        /\ T = 16000 => TimeLen(out) = 50
        /\ T < 320 => pc = "raised"

C2_Witness ==
    /\ EncoderReturned
    /\ TimeLen(x) = 959
    /\ TimeLen(out) = 2

(***************************************************************************)
(* Properties of the Decoder.                                              *)
(***************************************************************************)
DecoderReturned == pc = "returned" /\ layer.kind = "Decoder"

DecoderFinished ==
    /\ layer.kind = "Decoder"
    /\ pc \in {"returned", "raised"}
    /\ x.ch = args.embedding_dim
    /\ condition.dim = args.conditioning_dim

\* the upsampling factor of stage i of the Decoder
DecoderFactor(i) ==
    CASE i = 4 -> 8
      [] i = 6 -> 5
      [] i = 8 -> 4
      [] i = 10 -> 2
      [] OTHER -> 1

\* C3: the Decoder returns F * 320 samples for F frames: the four
\* DecoderBlocks multiply the time length by 8, 5, 4 and 2 and every other
\* stage keeps it.
C3_DecoderLength ==
    DecoderFinished =>
        /\ pc = "returned"
        /\ out.lay = "wave"
        /\ TimeLen(out) = TimeLen(x) * 320
        /\ \A i \in 1..Len(calls) :
              calls[i].outlen = calls[i].inlen * DecoderFactor(i)

C3_Witness ==
    /\ DecoderReturned
    /\ TimeLen(x) = 2
    /\ TimeLen(out) = 640
    /\ calls[4].inlen = 2 /\ calls[4].outlen = 16

\* the product of the factors of the stages before stage i of the Decoder
DecoderStride(i) ==
    CASE i <= 4 -> 1
      [] i \in {5, 6} -> 8
      [] i \in {7, 8} -> 8 * 5
      [] i \in {9, 10} -> 8 * 5 * 4
      [] OTHER -> 8 * 5 * 4 * 2

\* C6: output sample i of the Decoder is computed from no embedding frame
\* after floor(i / 320), and after every stage time step t is computed
\* from no frame after floor(t / the product of the factors so far).
C6_DecoderCausal ==
    /\ DecoderReturned =>
          \A i \in 0..(TimeLen(out) - 1) : out.dep[i + 1] <= i \div 320
    /\ (pc = "running" /\ layer.kind = "Decoder") =>
          \A t \in 0..(TimeLen(val) - 1) :
              val.dep[t + 1] <= t \div DecoderStride(stage)

C6_Witness ==
    /\ DecoderReturned
    /\ TimeLen(x) = 2
    /\ out.dep[320] = 0
    /\ out.dep[321] = 1
    /\ out.cond

\* the shape of a tensor as the calls record it
Shape(t) == <<t.lay, t.ch, Len(t.dep)>>

InRun == layer.kind = "Decoder" /\ pc \in {"running", "returned", "raised"}

C7_Calls ==
    InRun =>
        /\ Len(calls) = IF pc = "raised" THEN stage ELSE stage - 1
        /\ \A i \in 1..Len(calls) :
              /\ calls[i].stage = i
              /\ calls[i].kind = layer.decoder[i].kind
              /\ calls[i].condition =
                    IF layer.decoder[i].kind = "FiLM" THEN condition ELSE NoCondition
              /\ <<calls[i].inlay, calls[i].inch, calls[i].inlen>> =
                    IF i = 1 THEN Shape(x)
                    ELSE <<calls[i - 1].outlay, calls[i - 1].outch, calls[i - 1].outlen>>
        /\ pc = "returned" =>
              /\ Len(calls) = Len(layer.decoder)
              /\ {i \in 1..Len(calls) : calls[i].condition # NoCondition} = {5, 7, 9, 11}
              /\ Shape(out) = <<calls[13].outlay, calls[13].outch, calls[13].outlen>>

\* C7: SequentialWithFiLM.forward calls every stage once, in construction
\* order, each on the previous stage's result; a stage is passed the
\* condition iff it is a FiLM stage, and the condition is the one forward
\* was called with, which the loop never changes; in the Decoder exactly
\* the stages 5, 7, 9 and 11 (the four FiLM stages) are passed it.
C7_SequentialWithFiLM ==
    /\ []C7_Calls
    /\ [][pc = "running" => condition' = condition]_vars

C7_Witness ==
    /\ DecoderReturned
    /\ condition.dim = 2
    /\ Len(calls) = 13
    /\ calls[4].condition = NoCondition
    /\ calls[5].condition = condition

(***************************************************************************)
(* Properties of FiLM.                                                     *)
(***************************************************************************)
FiLMCalled == pc = "called" /\ layer.kind = "FiLM"

Gamma == LinearForward(layer.to_gamma, condition).v

Beta == LinearForward(layer.to_beta, condition).v

\* C10: FiLM.forward returns x[b,c,t] * gamma[b,c] + beta[b,c] with gamma =
\* to_gamma(condition) and beta = to_beta(condition), the same for every
\* time step t; when gamma is all ones and beta all zeros it returns x.
C10_FiLM ==
    FiLMCalled =>
        /\ out.ok
        /\ Dim(out) = Dim(x)
        /\ \A b \in 1..Len(x.v) : \A c \in 1..Len(x.v[b]) : \A t \in 1..Len(x.v[b][c]) :
              out.v[b][c][t] = x.v[b][c][t] * Gamma[b][c] + Beta[b][c]
        /\ (\A b \in 1..Len(x.v) : \A c \in 1..Len(x.v[b]) :
               Gamma[b][c] = 1 /\ Beta[b][c] = 0) => out = x

C10_Witness ==
    /\ FiLMCalled
    /\ Dim(x) = <<2, 2, 2>>
    /\ x.v[1][1][1] # x.v[2][2][2]
    /\ \A b \in 1..2 : \A c \in 1..2 : Gamma[b][c] = 1 /\ Beta[b][c] = 0
    /\ condition.v[1] # condition.v[2]
    /\ out = x

(***************************************************************************)
(* Properties of the training code.                                        *)
(***************************************************************************)
RECURSIVE TotalStride(_)
RECURSIVE TotalStrideSeq(_)

\* the product of the strides of the convolutions of a module
TotalStride(m) ==
    CASE m.kind = "CausalConv1d" -> m.s
      [] m.kind = "Sequential" -> TotalStrideSeq(m.mods)
      [] m.kind = "Residual" -> TotalStride(m.fn)
      [] OTHER -> 1

TotalStrideSeq(mods) ==
    IF mods = <<>> THEN 1 ELSE TotalStride(Head(mods)) * TotalStrideSeq(Tail(mods))

BatchLen == Len(batch.x.dep)

\* the number of complete non-overlapping windows of 320 samples
CompleteWindows(T) == Cardinality({w \in 0..T : (w + 1) * 320 <= T})

PoolingCalled ==
    /\ pc = "called"
    /\ args.cls = "LearnablePooling"
    /\ Len(x.shape) = 3
    /\ x.shape[2] >= 1
    /\ x.shape[3] = args.dim

\* C12: LearnablePooling.forward on embeddings of shape (batch, frames, dim)
\* with frames >= 1 returns one pooled vector of shape (batch, dim), whatever
\* the number of frames.
C12_PoolingShape ==
    PoolingCalled =>
        /\ out.kind = "tensor"
        /\ out.shape = <<x.shape[1], args.dim>>

\* C13: a train_streamvc step whose generator returned between 640 and
\* T + 640 samples leaves a prediction and a target of equal length, the
\* prediction without its first 640 samples and the target cut at that
\* length, so that prediction sample i + 640 is paired with input sample i.
C13_StepPairs ==
    [][(tpc = "generated"
          /\ Len(x_pred_t.dep) >= 640
          /\ Len(x_pred_t.dep) <= Len(batch.x.dep) + 640) =>
         /\ x_pred_t'.ok /\ batch'.x.ok
         /\ Len(x_pred_t'.dep) = Len(x_pred_t.dep) - 640
         /\ Len(batch'.x.dep) = Len(x_pred_t'.dep)
         /\ \A i \in 1..Len(x_pred_t'.dep) :
               /\ x_pred_t'.dep[i] = x_pred_t.dep[i + 640]
               /\ batch'.x.dep[i] = batch.x.dep[i]
               /\ x_pred_t'.dep[i] = batch'.x.dep[i] + 640]_vars

C13_Witness ==
    /\ tpc = "training"
    /\ steps >= 1
    /\ Len(x_pred_t.dep) = 319
    /\ Len(batch.x.dep) = 319
    /\ x_pred_t.dep[319] = 958
    /\ batch.x.dep[319] = 318

InTrainStreamVC == tpc \in {"training", "loaded", "generated"}

C14_Frozen ==
    /\ tpc = "encoder_set" => streamvc["content_encoder"].weights # "init"
    /\ InTrainStreamVC =>
          /\ args.module_to_train \in {"decoder-and-speaker", "all"}
          /\ streamvc["content_encoder"].weights =
                 (IF args.module_to_train = "all" THEN "trained" ELSE "loaded")
          /\ args.module_to_train = "decoder-and-speaker" =>
                 args.content_encoder_checkpoint # ""
          /\ ~streamvc["content_encoder"].requires_grad
          /\ "content_encoder" \notin optimizer_generator
          /\ streamvc["content_encoder"].updates = 0

C14_OptimizerBuilt ==
    (optimizer_generator' # optimizer_generator) =>
        /\ ~streamvc'["content_encoder"].requires_grad
        /\ "content_encoder" \notin optimizer_generator'

C14_StepKeeps ==
    InTrainStreamVC => (streamvc'["content_encoder"] = streamvc["content_encoder"])

\* C14: a run of main that is in train_streamvc has module_to_train in
\* {decoder-and-speaker, all} and a content encoder that was set before,
\* trained (all) or loaded from the checkpoint (decoder-and-speaker); its
\* parameters are frozen when the generator optimizer is built, are not
\* among the optimizer's parameters, and no step of train_streamvc changes
\* them.
C14_EncoderFrozen ==
    /\ []C14_Frozen
    /\ [][C14_OptimizerBuilt /\ C14_StepKeeps]_vars

C14_Witness ==
    /\ tpc = "training"
    /\ steps >= 1
    /\ args.module_to_train = "decoder-and-speaker"
    /\ streamvc["content_encoder"].weights = "loaded"
    /\ streamvc["content_encoder"].updates = 0
    /\ streamvc["other"].updates >= 1
    /\ optimizer_generator = {"other"}

====
